---- MODULE Spec2Model ----
(***************************************************************************)
(* Model of django-authz-tools: the attribute classifier and namespace     *)
(* introspector (helpers/var_parser.py), the settings merger               *)
(* (helpers/settings_utils.py), the model role resolver                    *)
(* (helpers/model_utils.py), the startup hook (apps.py) and the patched    *)
(* auth backend (auth_backends.py).                                        *)
(*                                                                         *)
(* Python strings are sequences of one-character strings.  A call's result *)
(* is a record [exc, val]: exc = "none" when the call returned val, else   *)
(* the name of the exception the call raised.                              *)
(***************************************************************************)
EXTENDS Integers, Sequences, FiniteSets, TLC

\* ------------------------------------------------------------------ bounds
\* integer attribute values are 1..MaxInt
MaxInt == 2
\* number of operation calls in one behaviour
MaxCalls == 2
\* names handed to the classifier have at most MaxNameLen characters
MaxNameLen == 5

\* ------------------------------------------------------- python primitives
Ok(v) == [exc |-> "none", val |-> v]
Raise(e) == [exc |-> e, val |-> <<>>]

\* Python values: a runtime type and a payload
PyInt(i) == [t |-> "int", v |-> i]
PyFunction == [t |-> "function", v |-> 0]
PyNone == [t |-> "NoneType", v |-> 0]
PropertyObj == [t |-> "property", v |-> 0]
Unset == [t |-> "<unset slot>", v |-> 0]

TypeOf(value) == value.t
Callable(value) == value.t \in {"function", "type"}

\* code points of the characters used in names: "A" < "_" < "a"
Ord(c) == CASE c = "A" -> 65 [] c = "_" -> 95 [] c = "a" -> 97 [] OTHER -> 0
Upper(c) == IF c = "a" THEN "A" ELSE c
IsUpperChar(c) == c = "A"
StrUpper(s) == [i \in DOMAIN s |-> Upper(s[i])]

RECURSIVE LStrip(_)
LStrip(s) == IF s # <<>> /\ Head(s) = "_" THEN LStrip(Tail(s)) ELSE s
RECURSIVE RStrip(_)
RStrip(s) == IF s # <<>> /\ s[Len(s)] = "_" THEN RStrip(SubSeq(s, 1, Len(s) - 1)) ELSE s
\* str.strip("_")
Strip(s) == RStrip(LStrip(s))

\* s[:n] and s[-n:]
Prefix(s, n) == SubSeq(s, 1, IF n < Len(s) THEN n ELSE Len(s))
Suffix(s, n) == SubSeq(s, IF Len(s) - n + 1 > 1 THEN Len(s) - n + 1 ELSE 1, Len(s))

RECURSIVE StrLess(_, _)
StrLess(a, b) ==
    IF a = <<>> THEN b # <<>>
    ELSE IF b = <<>> THEN FALSE
    ELSE IF Head(a) = Head(b) THEN StrLess(Tail(a), Tail(b))
    ELSE Ord(Head(a)) < Ord(Head(b))

\* dir(module): the attribute names in sorted order
RECURSIVE SortedNames(_)
SortedNames(S) ==
    IF S = {} THEN <<>>
    ELSE LET m == CHOOSE x \in S : \A y \in S \ {x} : StrLess(x, y)
         IN <<m>> \o SortedNames(S \ {m})
Dir(module) == SortedNames(DOMAIN module)

\* ------------------------------------------------------ attribute classifier
PUBLIC == [t |-> "AccessType", v |-> 1]
PROTECTED == [t |-> "AccessType", v |-> 2]
PRIVATE == [t |-> "AccessType", v |-> 3]
DUNDER == [t |-> "AccessType", v |-> 4]
AccessType == {PUBLIC, PROTECTED, PRIVATE, DUNDER}

from_obj_name(name) ==
    IF Suffix(name, 2) = <<"_", "_">> /\ Prefix(name, 2) = <<"_", "_">> THEN DUNDER
    ELSE IF Prefix(name, 2) = <<"_", "_">> THEN PRIVATE
    ELSE IF Prefix(name, 1) = <<"_">> THEN PROTECTED
    ELSE PUBLIC

_is_const(name) == name = StrUpper(name)

\* first_char is index 1 (the second character) of the stripped name; the
\* underscore and case tests read the unstripped name
_is_class(name) ==
    LET stripped == Strip(name) IN
    IF Len(stripped) < 2 THEN Raise("IndexError")
    ELSE LET first_char == stripped[2] IN
         Ok(/\ IsUpperChar(first_char)
            /\ \A i \in DOMAIN name : name[i] # "_"
            /\ \E i \in DOMAIN name : name[i] # Upper(name[i]))

property_names == {"name", "value", "type", "access_type", "is_const", "is_class", "is_callable"}

\* reading a public slot of an ObjInfo instance
ReadSlot(slots, attr) ==
    IF slots.pub[attr] = Unset THEN Raise("AttributeError") ELSE Ok(slots.pub[attr])

_types_consistent(value, type_) ==
    IF TypeOf(value) # type_ THEN Raise("ValidationError") ELSE Ok(PyNone)

\* validate reads self.value and self.type, the public slots
validate(slots) ==
    LET value == ReadSlot(slots, "value") IN
    IF value.exc # "none" THEN value
    ELSE LET type_ == ReadSlot(slots, "type") IN
         IF type_.exc # "none" THEN type_
         ELSE _types_consistent(value.val, type_.val)

_set_readonly_properties(slots) ==
    [slots EXCEPT !.pub = [p \in property_names |-> PropertyObj]]

\* __init__ stores the arguments in the underscored slots, then validates,
\* then stores a property object in every public slot
ObjInfo__init__(name, value, type, access_type, is_const, is_class, is_callable) ==
    LET slots == [priv |-> [name |-> name, value |-> value, type |-> type,
                            access_type |-> access_type, is_const |-> is_const,
                            is_class |-> is_class, is_callable |-> is_callable],
                  pub |-> [p \in property_names |-> Unset]]
        v == validate(slots)
    IN IF v.exc # "none" THEN v ELSE Ok(_set_readonly_properties(slots))

from_name_and_value(name, value) ==
    LET c == _is_class(name) IN
    IF c.exc # "none" THEN c
    ELSE ObjInfo__init__(name, value, TypeOf(value), from_obj_name(name),
                         _is_const(name), c.val, Callable(value))

\* ----------------------------------------------------------- filter policy
\* tri-state filters are "True", "False" or "None"; access_types is None or a set
ParsingOptions(access_types_is_none, access_types, is_const, is_class, is_callable) ==
    [access_types_is_none |-> access_types_is_none, access_types |-> access_types,
     is_const |-> is_const, is_class |-> is_class, is_callable |-> is_callable]

is_valid_for(self, name, value) ==
    LET obj_info == from_name_and_value(name, value) IN
    IF obj_info.exc # "none" THEN obj_info
    ELSE LET access_type == ReadSlot(obj_info.val, "access_type")
             is_access_valid ==
                 \/ self.access_types_is_none
                 \/ self.access_types = {}
                 \/ access_type.val \in self.access_types
             is_other_valid ==
                 \A b \in {self.is_class, self.is_class, self.is_callable} :
                     b \in {"True", "None"}
         IN IF access_type.exc # "none" THEN access_type
            ELSE Ok(is_access_valid /\ is_other_valid)

\* --------------------------------------------------- namespace introspector
RECURSIVE ParseLoop(_, _, _, _)
ParseLoop(module, options, names, acc) ==
    IF names = <<>> THEN Ok(acc)
    ELSE LET name == Head(names)
             keep == IF options = PyNone THEN Ok(FALSE)
                     ELSE is_valid_for(options, name, module[name])
         IN IF keep.exc # "none" THEN keep
            ELSE IF ~keep.val THEN ParseLoop(module, options, Tail(names), acc)
            ELSE LET info == from_name_and_value(name, module[name]) IN
                 IF info.exc # "none" THEN info
                 ELSE ParseLoop(module, options, Tail(names), Append(acc, info.val))

parse_module_attrs(module, options) == ParseLoop(module, options, Dir(module), <<>>)

parse_consts_from_module(module) ==
    parse_module_attrs(module, ParsingOptions(FALSE, {PUBLIC}, "True", "False", "False"))

\* ---------------------------------------------------------- settings merger
\* the configuration object is a function from the names it holds to values
hasattr(obj, name) == name \in DOMAIN obj

add_const_to_settings(django_settings, name, value) ==
    [n \in DOMAIN django_settings \cup {name} |->
        IF n = name THEN value ELSE django_settings[n]]

Const(name, value) == [name |-> name, value |-> value]

RECURSIVE add_consts_to_settings(_, _)
add_consts_to_settings(django_settings, consts) ==
    IF consts = {} THEN django_settings
    ELSE LET const == CHOOSE c \in consts : TRUE IN
         add_consts_to_settings(
             add_const_to_settings(django_settings, const.name, const.value),
             consts \ {const})

\* the set comprehension of load_missed_consts_from_module_into_settings:
\* const.name and const.value are reads of the records' public slots, and
\* hasattr rejects an attribute name that is not a string
RECURSIVE MissedConsts(_, _, _)
MissedConsts(django_settings, consts_from_module, acc) ==
    IF consts_from_module = <<>> THEN Ok(acc)
    ELSE LET const == Head(consts_from_module)
             name == ReadSlot(const, "name")
             value == ReadSlot(const, "value")
         IN IF name.exc # "none" THEN name
            ELSE IF TypeOf(name.val) # "str" THEN Raise("TypeError")
            ELSE IF hasattr(django_settings, name.val)
                 THEN MissedConsts(django_settings, Tail(consts_from_module), acc)
            ELSE IF value.exc # "none" THEN value
            ELSE MissedConsts(django_settings, Tail(consts_from_module),
                              acc \cup {Const(name.val, value.val)})

\* the attributes the merger's policy is meant to select
SelectedNames(module) ==
    {n \in DOMAIN module :
        from_obj_name(n) = PUBLIC /\ _is_const(n) /\ ~Callable(module[n])}

\* variant: the selected attributes are copied without the hasattr test
load_missed_overwriting(django_settings, module) ==
    [exc |-> "none",
     settings |-> add_consts_to_settings(django_settings,
                      {Const(n, module[n]) : n \in SelectedNames(module)})]

\* variant: the copying loop stops after the first missing attribute
load_missed_first_only(django_settings, module) ==
    LET missed == SortedNames({n \in SelectedNames(module) : ~hasattr(django_settings, n)}) IN
    [exc |-> "none",
     settings |-> IF missed = <<>> THEN django_settings
                  ELSE add_const_to_settings(django_settings, Head(missed),
                                             module[Head(missed)])]

\* result: the exception raised (or "none") and the configuration object
\* as the call leaves it
load_missed_consts_from_module_into_settings(django_settings, module) ==
    LET consts_from_module == parse_consts_from_module(module) IN
    IF consts_from_module.exc # "none"
    THEN [exc |-> consts_from_module.exc, settings |-> django_settings]
    ELSE LET consts == MissedConsts(django_settings, consts_from_module.val, {}) IN
         IF consts.exc # "none"
         THEN [exc |-> consts.exc, settings |-> django_settings]
         ELSE [exc |-> "none",
               settings |-> add_consts_to_settings(django_settings, consts.val)]

\* ------------------------------------------------------- model role resolver
\* A model class is a record of its name and its class attributes.  A class
\* attribute that holds a relation is [shape, to]:
\*   "missing"     the class has no such attribute
\*   "None"        the attribute is None (NoGroupsMixin.groups)
\*   "descriptor"  the accessor the framework leaves on a model class for a
\*                 declared ManyToManyField(to); it has rel, field, through and
\*                 reverse, and no attribute named model
\*   "manager"     a manager bound to the related model, which has model = to
NoClass == [name |-> "<none>"]
NoAttr == [shape |-> "missing", to |-> NoClass]
NoneAttr == [shape |-> "None", to |-> NoClass]
ManyToManyDescriptor(to) == [shape |-> "descriptor", to |-> to]
ManagerOf(to) == [shape |-> "manager", to |-> to]

\* the base classes of each model class of the universe
Bases(name) ==
    CASE name = "Group" -> {"Group", "Model"}
      [] name = "CustomGroup" -> {"CustomGroup", "BaseGroup", "Model"}
      [] name = "Permission" -> {"Permission", "Model"}
      [] name = "CustomPermission" -> {"CustomPermission", "BasePermission", "Model"}
      [] name = "Article" -> {"Article", "Model"}
      [] OTHER -> {name}

\* Permission = BasePermission | DefaultPermission, Group = BaseGroup | DefaultGroup
Permission == {"BasePermission", "Permission"}
Group == {"BaseGroup", "Group"}

issubclass(cls, classinfo) == Bases(cls.name) \cap classinfo # {}

\* getattr(cls, attr) without a default
GetClassAttr(cls, attr) ==
    IF cls[attr].shape = "missing" THEN Raise("AttributeError") ELSE Ok(cls[attr])

\* getattr(relation, "model")
GetModel(relation) ==
    IF relation.shape = "manager" THEN Ok(relation.to) ELSE Raise("AttributeError")

Truthy(relation) == relation.shape # "None"

get_group_model(user_model) ==
    LET groups == GetClassAttr(user_model, "groups") IN
    IF groups.exc # "none" THEN groups
    ELSE IF Truthy(groups.val) /\ GetModel(groups.val).exc # "none" THEN GetModel(groups.val)
    ELSE IF Truthy(groups.val) /\ ~issubclass(GetModel(groups.val).val, Group)
         THEN Raise("ImproperlyConfigured")
    ELSE GetModel(groups.val)

get_permission_model(user_model) ==
    LET group_model == get_group_model(user_model) IN
    IF group_model.exc # "none" THEN group_model
    ELSE LET permissions == GetClassAttr(group_model.val, "permissions") IN
         IF permissions.exc # "none" THEN permissions
         ELSE IF Truthy(permissions.val) /\ GetModel(permissions.val).exc # "none"
              THEN GetModel(permissions.val)
         ELSE IF Truthy(permissions.val) /\ ~issubclass(GetModel(permissions.val).val, Permission)
              THEN Raise("ImproperlyConfigured")
         ELSE GetModel(permissions.val)

\* ------------------------------------------------------------ startup hook
AUTH_GROUP_MODEL ==
    <<"A", "U", "T", "H", "_", "G", "R", "O", "U", "P", "_", "M", "O", "D", "E", "L">>
AUTH_PERMISSION_MODEL ==
    <<"A", "U", "T", "H", "_", "P", "E", "R", "M", "I", "S", "S", "I", "O", "N",
      "_", "M", "O", "D", "E", "L">>

\* the parameters of load_missed_consts_from_module_into_settings and the
\* keywords on_startup passes to it
load_missed_params == {"django_settings", "module"}
on_startup_keywords == {"django_settings", "consts_module"}

\* result: the exception raised (or "none") and the configuration object as
\* on_startup leaves it
on_startup(django_settings, user_model, consts) ==
    LET group_model == get_group_model(user_model) IN
    IF group_model.exc # "none"
    THEN [exc |-> group_model.exc, settings |-> django_settings]
    ELSE LET s1 == add_const_to_settings(django_settings, AUTH_GROUP_MODEL, group_model.val)
             permission_model == get_permission_model(user_model)
         IN IF permission_model.exc # "none"
            THEN [exc |-> permission_model.exc, settings |-> s1]
            ELSE LET s2 == add_const_to_settings(s1, AUTH_PERMISSION_MODEL,
                                                 permission_model.val)
                 IN IF ~(on_startup_keywords \subseteq load_missed_params)
                    THEN [exc |-> "TypeError", settings |-> s2]
                    ELSE load_missed_consts_from_module_into_settings(s2, consts)

\* ------------------------------------------- abstract-to-concrete synthesizer
\* An entity type is a record of its name, its Meta options, its module and
\* its fields (a function from field names to field declarations).
\* fields of the template overlaid with the overrides: {...} | {**field_overrides}
MergedFields(template_fields, field_overrides) ==
    [f \in DOMAIN template_fields \cup DOMAIN field_overrides |->
        IF f \in DOMAIN field_overrides THEN field_overrides[f] ELSE template_fields[f]]

\* variant: the test of _meta.abstract is left out
from_abstract_to_concrete_model_unchecked(abstract_model, new_model_name, field_overrides, app) ==
    IF app.exc # "none" THEN app
    ELSE Ok([name |-> new_model_name,
             meta |-> [abstract |-> FALSE, app_label |-> app.val,
                       verbose_name |-> new_model_name],
             module |-> abstract_model.module,
             fields |-> MergedFields(abstract_model.fields, field_overrides)])

\* app is the outcome of get_app_label(), the lookup of the owning application
\* in the framework's application registry: its label, or the exception raised
from_abstract_to_concrete_model(abstract_model, new_model_name, field_overrides, app) ==
    IF ~abstract_model.meta.abstract THEN Raise("ValueError")
    ELSE LET fields == MergedFields(abstract_model.fields, field_overrides) IN
         IF app.exc # "none" THEN app
         ELSE Ok([name |-> new_model_name,
                  meta |-> [abstract |-> FALSE, app_label |-> app.val,
                            verbose_name |-> new_model_name],
                  module |-> abstract_model.module,
                  fields |-> fields])

\* ------------------------------------------------------------------- state
VARIABLES
    settings,   \* the global configuration object
    module,     \* the source namespace handed to the settings merger
    user_model, \* the class configured as AUTH_USER_MODEL
    PermissionModel, \* auth_backends.PermissionModel: name of the resolved class
    users,      \* the rows of the user table, by primary key
    group_permissions, \* the permissions each group holds
    perm_cache, \* the permission caches stored on each principal instance
    registry,   \* the entity types synthesized so far
    before,     \* the configuration object as it was before the last call
    last,       \* the last call: [op, exc, val]
    merges,     \* number of settings-merger calls made in a row, up to now
    calls       \* number of calls made

vars == <<settings, module, user_model, PermissionModel, users, group_permissions,
          perm_cache, registry, before, last, merges, calls>>

\* attribute values of a namespace, and names of namespace attributes
Values == {PyInt(i) : i \in 1..MaxInt} \cup {PyFunction}
IntValues == {PyInt(i) : i \in 1..MaxInt}
NamePool == {<<"A">>, <<"A", "A">>, <<"a", "a">>, <<"_", "A", "A">>}
SettingNames == {<<"A", "A">>, <<"a", "a">>}

Namespaces(names, values) == UNION {[S -> values] : S \in SUBSET names}

\* the model classes a project can configure
PermissionClasses == {[name |-> n] : n \in {"Permission", "CustomPermission", "Article"}}
RelationsTo(classes) ==
    {NoAttr, NoneAttr} \cup {ManyToManyDescriptor(c) : c \in classes}
                       \cup {ManagerOf(c) : c \in classes}
GroupClasses ==
    {[name |-> n, permissions |-> r] :
        n \in {"Group", "CustomGroup", "Article"}, r \in RelationsTo(PermissionClasses)}
UserClasses == {[name |-> "User", groups |-> r] : r \in RelationsTo(GroupClasses)}
DefaultUser == [name |-> "User", groups |-> NoneAttr]

database == <<PermissionModel, users, group_permissions, perm_cache, registry>>

\* the settings merger and the resolver read no table
NoDatabase ==
    /\ PermissionModel = "Permission"
    /\ users = <<>>
    /\ group_permissions = <<>>
    /\ perm_cache = <<>>
    /\ registry = {}

Returned(op, r) == [op |-> op, exc |-> r.exc, val |-> r.val]
Finished(op, exc) == [op |-> op, exc |-> exc, val |-> <<>>]

InitSettings ==
    /\ settings \in Namespaces(SettingNames, IntValues)
    /\ module \in Namespaces(NamePool, Values)
    /\ user_model = DefaultUser
    /\ NoDatabase
    /\ before = settings
    /\ last = Finished("init", "none")
    /\ merges = 0
    /\ calls = 0

\* a call of load_missed_consts_from_module_into_settings(settings, module)
LoadMissed ==
    /\ calls < MaxCalls
    /\ LET r == load_missed_consts_from_module_into_settings(settings, module) IN
       /\ settings' = r.settings
       /\ last' = Finished("load_missed", r.exc)
    /\ before' = settings
    /\ merges' = merges + 1
    /\ calls' = calls + 1
    /\ UNCHANGED <<module, user_model, database>>

\* a call of add_const_to_settings(settings, name, value)
AddConst ==
    /\ calls < MaxCalls
    /\ \E name \in SettingNames, value \in IntValues :
          settings' = add_const_to_settings(settings, name, value)
    /\ last' = Finished("add_const", "none")
    /\ before' = settings
    /\ merges' = 0
    /\ calls' = calls + 1
    /\ UNCHANGED <<module, user_model, database>>

NextSettings == LoadMissed \/ AddConst

SpecSettings == InitSettings /\ [][NextSettings]_vars

\* ------------------------------------------------- startup and the resolver
InitStartup ==
    /\ settings \in Namespaces({<<"A", "A">>}, IntValues)
    /\ module \in Namespaces({<<"A", "A">>, <<"a", "a">>}, IntValues)
    /\ user_model \in UserClasses
    /\ NoDatabase
    /\ before = settings
    /\ last = Finished("init", "none")
    /\ merges = 0
    /\ calls = 0

\* a call of get_group_model()
GetGroupModel ==
    /\ calls < MaxCalls
    /\ last' = Returned("get_group_model", get_group_model(user_model))
    /\ before' = settings
    /\ merges' = 0
    /\ calls' = calls + 1
    /\ UNCHANGED <<settings, module, user_model, database>>

\* a call of get_permission_model()
GetPermissionModel ==
    /\ calls < MaxCalls
    /\ last' = Returned("get_permission_model", get_permission_model(user_model))
    /\ before' = settings
    /\ merges' = 0
    /\ calls' = calls + 1
    /\ UNCHANGED <<settings, module, user_model, database>>

\* the application-ready event: StartupAppConfig.ready() calls on_startup()
OnStartup ==
    /\ calls < MaxCalls
    /\ LET r == on_startup(settings, user_model, module) IN
       /\ settings' = r.settings
       /\ last' = Finished("on_startup", r.exc)
    /\ before' = settings
    /\ merges' = 0
    /\ calls' = calls + 1
    /\ UNCHANGED <<module, user_model, database>>

NextStartup == GetGroupModel \/ GetPermissionModel \/ OnStartup

SpecStartup == InitStartup /\ [][NextStartup]_vars

\* ------------------------------------------------------------- auth backend
\* the rows of the permission table: primary key, application label, codename
Permissions ==
    {[pk |-> 1, app_label |-> <<"a">>, codename |-> <<"v">>],
     [pk |-> 2, app_label |-> <<"a">>, codename |-> <<"e">>]}
PermPks == {p.pk : p \in Permissions}
UserPks == {1, 2}
GroupIds == {1}

\* arguments handed to the backend
PyStr(s) == [t |-> "str", v |-> s, pk |-> 0]
Instance(cls, pk) == [t |-> cls, v |-> <<>>, pk |-> pk]
NoObj == Instance("NoneType", 0)
SomeObj == Instance("Article", 1)

isinstance(obj, cls) == cls \in Bases(obj.t)

RECURSIVE Count(_, _)
Count(s, c) ==
    IF s = <<>> THEN 0 ELSE (IF Head(s) = c THEN 1 ELSE 0) + Count(Tail(s), c)

\* perm.split(".") of a string with exactly one "."
DotAt(s) == CHOOSE i \in DOMAIN s : s[i] = "."
AppLabelOf(s) == SubSeq(s, 1, DotAt(s) - 1)
CodenameOf(s) == SubSeq(s, DotAt(s) + 1, Len(s))

\* the principal instance handed to the backend for a row of the user table
Principal(pk) ==
    [pk |-> pk, is_active |-> users[pk].is_active, is_superuser |-> users[pk].is_superuser,
     is_anonymous |-> FALSE, cache |-> perm_cache[pk]]
AnonymousUser ==
    [pk |-> 0, is_active |-> FALSE, is_superuser |-> FALSE, is_anonymous |-> TRUE,
     cache |-> <<>>]

\* the permissions a principal holds directly, and through its groups
_get_user_permissions(user_obj) == users[user_obj.pk].user_permissions
_get_group_permissions(user_obj) ==
    {p \in PermPks : \E g \in users[user_obj.pk].groups : p \in group_permissions[g]}

PermCacheName(from_name) ==
    IF from_name = "user" THEN "_user_perm_cache" ELSE "_group_perm_cache"

\* variant: the obj test is left out of the guard
_get_permissions_ignoring_obj(user_obj, obj, from_name) ==
    IF ~user_obj.is_active \/ user_obj.is_anonymous THEN Ok({})
    ELSE IF PermCacheName(from_name) \in DOMAIN user_obj.cache
         THEN Ok(user_obj.cache[PermCacheName(from_name)])
         ELSE Raise("AttributeError")

\* perms is computed when the cache attribute is absent, and stored nowhere;
\* the return reads the cache attribute
_get_permissions(user_obj, obj, from_name) ==
    IF ~user_obj.is_active \/ user_obj.is_anonymous \/ obj # NoObj THEN Ok({})
    ELSE LET perm_cache_name == PermCacheName(from_name)
             perms == IF user_obj.is_superuser THEN PermPks
                      ELSE IF from_name = "user" THEN _get_user_permissions(user_obj)
                      ELSE _get_group_permissions(user_obj)
         IN IF perm_cache_name \in DOMAIN user_obj.cache
            THEN Ok(user_obj.cache[perm_cache_name])
            ELSE Raise("AttributeError")

get_user_permissions(user_obj, obj) == _get_permissions(user_obj, obj, "user")
get_group_permissions(user_obj, obj) == _get_permissions(user_obj, obj, "group")

\* result: the exception raised (or "none"), the set returned and the cache
\* of the principal as the call leaves it
get_all_permissions(user_obj, obj) ==
    IF ~user_obj.is_active \/ user_obj.is_anonymous \/ obj # NoObj
    THEN [exc |-> "none", val |-> {}, cache |-> user_obj.cache]
    ELSE IF "_perm_cache" \in DOMAIN user_obj.cache
    THEN [exc |-> "none", val |-> user_obj.cache["_perm_cache"], cache |-> user_obj.cache]
    ELSE LET user_perms == get_user_permissions(user_obj, NoObj)
             group_perms == get_group_permissions(user_obj, NoObj)
         IN IF user_perms.exc # "none"
            THEN [exc |-> user_perms.exc, val |-> {}, cache |-> user_obj.cache]
            ELSE IF group_perms.exc # "none"
            THEN [exc |-> group_perms.exc, val |-> {}, cache |-> user_obj.cache]
            ELSE LET all == user_perms.val \cup group_perms.val IN
                 [exc |-> "none", val |-> all,
                  cache |-> [n \in DOMAIN user_obj.cache \cup {"_perm_cache"} |->
                                IF n = "_perm_cache" THEN all ELSE user_obj.cache[n]]]

has_perm(user_obj, perm, obj) ==
    IF ~user_obj.is_active
    THEN [exc |-> "none", val |-> FALSE, cache |-> user_obj.cache]
    ELSE LET all == get_all_permissions(user_obj, obj) IN
         [exc |-> all.exc, val |-> all.exc = "none" /\ perm \in all.val, cache |-> all.cache]

\* variant: the obj test comes before the validation of perm
with_perm_obj_first(perm, is_active, include_superusers, obj) ==
    IF obj # NoObj THEN Ok({})
    ELSE IF perm.t = "str" /\ Count(perm.v, ".") # 1 THEN Raise("ValueError")
    ELSE IF perm.t # "str" /\ ~isinstance(perm, PermissionModel) THEN Raise("TypeError")
    ELSE Ok({})

\* is_active is "True", "False" or "None"; the result is the set of primary
\* keys of the rows the query selects
with_perm(perm, is_active, include_superusers, obj) ==
    IF perm.t = "str" /\ Count(perm.v, ".") # 1 THEN Raise("ValueError")
    ELSE IF perm.t # "str" /\ ~isinstance(perm, PermissionModel) THEN Raise("TypeError")
    ELSE IF obj # NoObj THEN Ok({})
    ELSE LET held(u) == users[u].user_permissions
                          \cup {p \in PermPks : \E g \in users[u].groups :
                                                   p \in group_permissions[g]}
             permission_q(u, p) ==
                 /\ p.pk \in held(u)
                 /\ IF perm.t = "str"
                    THEN p.codename = CodenameOf(perm.v) /\ p.app_label = AppLabelOf(perm.v)
                    ELSE IF isinstance(perm, "Permission")
                    THEN TRUE
                    ELSE p.pk = perm.pk
             user_q(u) ==
                 /\ \/ \E p \in Permissions : permission_q(u, p)
                    \/ include_superusers /\ users[u].is_superuser
                 /\ is_active # "None" => users[u].is_active = (is_active = "True")
         IN Ok({u \in DOMAIN users : user_q(u)})

\* the arguments the backend is called with
PermStrings ==
    {<<"a", "v">>, <<"a", ".", "v">>, <<"a", ".", "e">>, <<"a", ".", "v", ".", "e">>}
PermArgs ==
    {PyStr(s) : s \in PermStrings}
        \cup {Instance(c, pk) : c \in {"Permission", "CustomPermission"}, pk \in PermPks}
        \cup {Instance("int", 0)}
Principals == {Principal(pk) : pk \in DOMAIN users} \cup {AnonymousUser}
Objs == {NoObj, SomeObj}

InitBackend ==
    /\ settings = <<>>
    /\ module = <<>>
    /\ user_model = DefaultUser
    /\ PermissionModel \in {"Permission", "CustomPermission"}
    /\ users \in [UserPks -> [is_active : BOOLEAN, is_superuser : BOOLEAN,
                              user_permissions : SUBSET PermPks,
                              groups : SUBSET GroupIds]]
    /\ users[2].groups = {} /\ 1 \notin users[2].user_permissions
    /\ group_permissions \in [GroupIds -> SUBSET PermPks]
    /\ perm_cache = [pk \in UserPks |-> <<>>]
    /\ registry = {}
    /\ before = settings
    /\ last = Finished("init", "none")
    /\ merges = 0
    /\ calls = 0

Called(op, r, args) == [op |-> op, exc |-> r.exc, val |-> r.val, args |-> args]

\* one call per behaviour: the calls change nothing that a later call reads
\* unless a cache is stored
BackendCall ==
    /\ calls = 0
    /\ calls' = calls + 1
    /\ before' = settings
    /\ merges' = 0
    /\ UNCHANGED <<settings, module, user_model, PermissionModel, users, group_permissions,
                 registry>>

GetUserPermissions ==
    /\ BackendCall
    /\ \E user_obj \in Principals, obj \in Objs :
          last' = Called("get_user_permissions", get_user_permissions(user_obj, obj),
                         [user_obj |-> user_obj, obj |-> obj])
    /\ UNCHANGED perm_cache

GetGroupPermissions ==
    /\ BackendCall
    /\ \E user_obj \in Principals, obj \in Objs :
          last' = Called("get_group_permissions", get_group_permissions(user_obj, obj),
                         [user_obj |-> user_obj, obj |-> obj])
    /\ UNCHANGED perm_cache

HasPerm ==
    /\ BackendCall
    /\ \E user_obj \in Principals, s \in PermStrings, obj \in Objs :
          LET r == has_perm(user_obj, s, obj) IN
          /\ last' = Called("has_perm", r, [user_obj |-> user_obj, perm |-> s, obj |-> obj])
          /\ perm_cache' = IF user_obj.is_anonymous THEN perm_cache
                           ELSE [perm_cache EXCEPT ![user_obj.pk] = r.cache]

WithPerm ==
    /\ BackendCall
    /\ \E perm \in PermArgs, is_active \in {"True", "False", "None"},
          include_superusers \in BOOLEAN, obj \in Objs :
          last' = Called("with_perm", with_perm(perm, is_active, include_superusers, obj),
                         [perm |-> perm, is_active |-> is_active,
                          include_superusers |-> include_superusers, obj |-> obj])
    /\ UNCHANGED perm_cache

NextBackend == GetUserPermissions \/ GetGroupPermissions \/ HasPerm \/ WithPerm

SpecBackend == InitBackend /\ [][NextBackend]_vars

\* ------------------------------------------------------------- synthesis
FieldNames == {"name", "description"}
OverrideNames == {"name", "extra"}
Templates ==
    {[name |-> "Template", meta |-> [abstract |-> a], module |-> "models",
      fields |-> [f \in S |-> "declared"]] : a \in BOOLEAN, S \in SUBSET FieldNames}
FieldOverrides == {[f \in S |-> "override"] : S \in SUBSET OverrideNames}
NewModelNames == {"Role", "Team"}
AppLookups == {Ok("app"), Raise("AttributeError")}

InitSynthesis ==
    /\ settings = <<>>
    /\ module = <<>>
    /\ user_model = DefaultUser
    /\ NoDatabase
    /\ before = settings
    /\ last = Finished("init", "none")
    /\ merges = 0
    /\ calls = 0

\* a call of from_abstract_to_concrete_model; a type that was built is
\* registered with the framework
Synthesize ==
    /\ calls < MaxCalls
    /\ \E abstract_model \in Templates, new_model_name \in NewModelNames,
          field_overrides \in FieldOverrides, app \in AppLookups :
          LET r == from_abstract_to_concrete_model(abstract_model, new_model_name,
                                                   field_overrides, app) IN
          /\ last' = [op |-> "from_abstract_to_concrete_model", exc |-> r.exc,
                      val |-> r.val, registry_before |-> registry,
                      args |-> [abstract_model |-> abstract_model,
                                new_model_name |-> new_model_name,
                                field_overrides |-> field_overrides]]
          /\ registry' = IF r.exc = "none" THEN registry \cup {r.val} ELSE registry
    /\ calls' = calls + 1
    /\ before' = settings
    /\ merges' = 0
    /\ UNCHANGED <<settings, module, user_model, PermissionModel, users,
                   group_permissions, perm_cache>>

NextSynthesis == Synthesize

SpecSynthesis == InitSynthesis /\ [][NextSynthesis]_vars

\* ---------------------------------------------------------- introspection
\* the names, declared types and filter policies handed to the classifier and
\* to the introspector
Chars == {"_", "A", "a"}
Names == UNION {[1..n -> Chars] : n \in 1..MaxNameLen}
DeclaredTypes == {"int", "function", "str"}
TriState == {"True", "False", "None"}
Policies ==
    {ParsingOptions(none, IF none THEN {} ELSE types, c, k, f) :
        none \in BOOLEAN, types \in {{}, {PUBLIC}, {PROTECTED, DUNDER}},
        c \in TriState, k \in TriState, f \in TriState}

InitIntrospection ==
    /\ settings = <<>>
    /\ module = <<>>
    /\ user_model = DefaultUser
    /\ NoDatabase
    /\ before = settings
    /\ last = Finished("init", "none")
    /\ merges = 0
    /\ calls = 0

\* one call per behaviour: the classifier and the introspector keep no state
IntrospectionCall ==
    /\ calls = 0
    /\ calls' = calls + 1
    /\ before' = settings
    /\ merges' = 0
    /\ UNCHANGED <<settings, module, user_model, database>>

\* a call of _is_class(name)
IsClass ==
    /\ IntrospectionCall
    /\ \E name \in Names :
          last' = Called("_is_class", _is_class(name), [name |-> name])

\* a call of ObjInfo(name, value, type, ...)
NewObjInfo ==
    /\ IntrospectionCall
    /\ \E name \in Names, value \in Values, type \in DeclaredTypes, is_class \in BOOLEAN :
          last' = Called("ObjInfo",
                         ObjInfo__init__(name, value, type, from_obj_name(name),
                                         _is_const(name), is_class, Callable(value)),
                         [name |-> name, value |-> value, type |-> type])

\* a call of ObjInfo.from_name_and_value(name, value)
FromNameAndValue ==
    /\ IntrospectionCall
    /\ \E name \in Names, value \in Values :
          last' = Called("from_name_and_value", from_name_and_value(name, value),
                         [name |-> name, value |-> value])

\* a call of options.is_valid_for(name, value)
IsValidFor ==
    /\ IntrospectionCall
    /\ \E options \in Policies, name \in Names, value \in Values :
          last' = Called("is_valid_for", is_valid_for(options, name, value),
                         [options |-> options, name |-> name, value |-> value])

\* a call of parse_module_attrs(module, options), options None or a policy
ParseModuleAttrs ==
    /\ IntrospectionCall
    /\ \E namespace \in Namespaces(NamePool, Values), options \in {PyNone} \cup Policies :
          last' = Called("parse_module_attrs", parse_module_attrs(namespace, options),
                         [module |-> namespace, options |-> options])

NextIntrospection ==
    IsClass \/ NewObjInfo \/ FromNameAndValue \/ IsValidFor \/ ParseModuleAttrs

SpecIntrospection == InitIntrospection /\ [][NextIntrospection]_vars

\* ------------------------------------------------------------------ claims
\* C1: the settings merger never overwrites: every name the configuration
\* object held before a call of the merger is still held, with its prior
\* value, after the call, whatever the source namespace binds to that name.
C1_MergerKeepsPresentNames ==
    last.op = "load_missed" =>
        \A n \in DOMAIN before : n \in DOMAIN settings /\ settings[n] = before[n]

\* a merger call has finished on a configuration object that held AA while
\* the source namespace binds the public constant AA to another integer
C1_Witness ==
    /\ last.op = "load_missed"
    /\ <<"A", "A">> \in DOMAIN before \cap DOMAIN module
    /\ ~Callable(module[<<"A", "A">>])
    /\ module[<<"A", "A">>] # before[<<"A", "A">>]

\* C2: after a call of the settings merger every attribute of the source
\* namespace that is public, constant, not class-like and not callable, and
\* whose name the configuration object did not hold before the call, is held
\* by the configuration object with the namespace's value.
C2_MergerCopiesMissingConsts ==
    last.op = "load_missed" =>
        \A n \in DOMAIN module :
            LET stripped == Strip(n)
                class_like ==
                    /\ stripped # <<>>
                    /\ IsUpperChar(stripped[1])
                    /\ \A i \in DOMAIN stripped : stripped[i] # "_"
                    /\ \E i \in 2..Len(stripped) : ~IsUpperChar(stripped[i])
            IN (/\ from_obj_name(n) = PUBLIC
                /\ _is_const(n)
                /\ ~class_like
                /\ ~Callable(module[n])
                /\ n \notin DOMAIN before)
               => (n \in DOMAIN settings /\ settings[n] = module[n])

\* C3: the settings merger is idempotent: when the merger has run twice in a
\* row, the second run left the configuration object as the first run left it.
C3_MergerIdempotent == merges >= 2 => settings = before

\* the merger has run twice in a row on a namespace with two public constants
\* the configuration object did not hold
C3_Witness ==
    /\ merges >= 2
    /\ {<<"A">>, <<"A", "A">>} \subseteq DOMAIN module
    /\ ~Callable(module[<<"A">>]) /\ ~Callable(module[<<"A", "A">>])
    /\ <<"A", "A">> \notin DOMAIN before

\* the declared User -> Group -> Permission relation chain is valid
HasRelation(attr) == attr.shape \in {"descriptor", "manager"}
ValidGroups(user) == HasRelation(user.groups) /\ issubclass(user.groups.to, Group)
ValidChain(user) ==
    /\ ValidGroups(user)
    /\ HasRelation(user.groups.to.permissions)
    /\ issubclass(user.groups.to.permissions.to, Permission)

\* C4: with a valid groups -> permissions chain on the configured User type,
\* on_startup completes without raising, and afterwards the configuration
\* holds AUTH_GROUP_MODEL = the resolved Group type, AUTH_PERMISSION_MODEL =
\* the resolved Permission type, and the constants the merger selects.
C4_StartupPublishesModels ==
    (last.op = "on_startup" /\ ValidChain(user_model)) =>
        /\ last.exc = "none"
        /\ AUTH_GROUP_MODEL \in DOMAIN settings
        /\ settings[AUTH_GROUP_MODEL] = user_model.groups.to
        /\ AUTH_PERMISSION_MODEL \in DOMAIN settings
        /\ settings[AUTH_PERMISSION_MODEL] = user_model.groups.to.permissions.to
        /\ \A n \in SelectedNames(module) : n \in DOMAIN settings

\* the permissions a principal holds directly or through a group
HeldBy(u) ==
    users[u].user_permissions
        \cup {p \in PermPks : \E g \in users[u].groups : p \in group_permissions[g]}
\* the permission rows a perm argument names: by label and codename for a
\* string, by primary key for an instance
NamedBy(perm) ==
    {p \in Permissions :
        IF perm.t = "str"
        THEN Count(perm.v, ".") = 1 /\ p.app_label = AppLabelOf(perm.v)
                                    /\ p.codename = CodenameOf(perm.v)
        ELSE p.pk = perm.pk}

\* C5: for an active, non-anonymous principal and no obj, has_perm(user,
\* "app.codename") returns true exactly when the string names a permission in
\* the union of the principal's direct and group-derived permissions (every
\* permission, for a superuser), and returns true for a superuser.
C5_HasPermIsUnionMembership ==
    (/\ last.op = "has_perm"
     /\ last.args.user_obj.is_active
     /\ ~last.args.user_obj.is_anonymous
     /\ last.args.obj = NoObj
     /\ Count(last.args.perm, ".") = 1)
    => LET u == last.args.user_obj
           union == IF u.is_superuser THEN PermPks ELSE HeldBy(u.pk)
       IN /\ last.exc = "none"
          /\ last.val = (\E p \in NamedBy(PyStr(last.args.perm)) : p.pk \in union)
          /\ u.is_superuser => last.val

\* C6: with_perm without obj, for a valid string or an instance of an accepted
\* permission type, returns exactly the principals that hold that permission
\* directly or through a group, plus every superuser when include_superusers,
\* restricted to the principals whose active flag equals is_active when
\* is_active is not None.
C6_WithPermSelectsHolders ==
    (last.op = "with_perm" /\ last.exc = "none" /\ last.args.obj = NoObj)
    => last.val =
         {u \in DOMAIN users :
            /\ \/ \E p \in NamedBy(last.args.perm) : p.pk \in HeldBy(u)
               \/ last.args.include_superusers /\ users[u].is_superuser
            /\ last.args.is_active # "None"
                  => users[u].is_active = (last.args.is_active = "True")}

\* C7: with_perm raises ValueError for a string perm whose number of "." is
\* not one, and TypeError for a perm that is neither a string nor an instance
\* of the permission type, whatever is_active, include_superusers and obj are.
C7_WithPermValidates ==
    last.op = "with_perm" =>
        /\ (last.args.perm.t = "str" /\ Count(last.args.perm.v, ".") # 1)
              => last.exc = "ValueError"
        /\ (last.args.perm.t # "str" /\ ~isinstance(last.args.perm, PermissionModel))
              => last.exc = "TypeError"

\* with_perm raised ValueError on a malformed string although obj was supplied
C7_Witness ==
    /\ last.op = "with_perm"
    /\ last.args.perm = PyStr(<<"a", ".", "v", ".", "e">>)
    /\ last.args.obj = SomeObj
    /\ last.exc = "ValueError"

\* C8: with obj supplied, get_user_permissions and get_group_permissions
\* return the empty set for every principal, and with_perm returns the empty
\* result for every perm that passes validation.
C8_ObjScopedQueriesAreEmpty ==
    /\ (last.op \in {"get_user_permissions", "get_group_permissions"}
            /\ last.args.obj # NoObj)
       => (last.exc = "none" /\ last.val = {})
    /\ (/\ last.op = "with_perm"
        /\ last.args.obj # NoObj
        /\ last.args.perm.t = "str" => Count(last.args.perm.v, ".") = 1
        /\ last.args.perm.t # "str" => isinstance(last.args.perm, PermissionModel))
       => (last.exc = "none" /\ last.val = {})

\* get_user_permissions returned the empty set to an active superuser that
\* holds a permission, because obj was supplied
C8_Witness ==
    /\ last.op = "get_user_permissions"
    /\ last.args.obj = SomeObj
    /\ last.args.user_obj.is_active /\ last.args.user_obj.is_superuser
    /\ ~last.args.user_obj.is_anonymous
    /\ users[last.args.user_obj.pk].user_permissions # {}
    /\ last.exc = "none" /\ last.val = {}

\* C9: get_group_model raises ImproperlyConfigured when the groups relation
\* targets a type that is not a Group, get_permission_model does when the
\* Group's permissions relation targets a type that is not a Permission, and
\* for a valid chain they return exactly the declared Group and Permission.
C9_ResolverChecksChain ==
    /\ (/\ last.op = "get_group_model"
        /\ HasRelation(user_model.groups)
        /\ ~issubclass(user_model.groups.to, Group))
       => last.exc = "ImproperlyConfigured"
    /\ (/\ last.op = "get_permission_model"
        /\ ValidGroups(user_model)
        /\ HasRelation(user_model.groups.to.permissions)
        /\ ~issubclass(user_model.groups.to.permissions.to, Permission))
       => last.exc = "ImproperlyConfigured"
    /\ (last.op = "get_group_model" /\ ValidChain(user_model))
       => (last.exc = "none" /\ last.val = user_model.groups.to)
    /\ (last.op = "get_permission_model" /\ ValidChain(user_model))
       => (last.exc = "none" /\ last.val = user_model.groups.to.permissions.to)

\* C10: with no groups relation on the User type (attribute missing or None)
\* get_group_model and get_permission_model return None without raising, and
\* so does get_permission_model when the Group type has no permissions
\* relation.
C10_AbsentRelationsGiveNone ==
    /\ (/\ last.op \in {"get_group_model", "get_permission_model"}
        /\ ~HasRelation(user_model.groups))
       => (last.exc = "none" /\ last.val = PyNone)
    /\ (/\ last.op = "get_permission_model"
        /\ ValidGroups(user_model)
        /\ ~HasRelation(user_model.groups.to.permissions))
       => (last.exc = "none" /\ last.val = PyNone)

C12_NoPolicyReturnsEveryAttribute ==
    (last.op = "parse_module_attrs" /\ last.args.options = PyNone)
    => /\ last.exc = "none"
       /\ Len(last.val) = Len(Dir(last.args.module))
       /\ \A i \in DOMAIN last.val : last.val[i].priv.name = Dir(last.args.module)[i]

\* C13: for every name and value, constructing an ObjInfo with a declared
\* type different from the type of the value fails with ValidationError and
\* yields no record.
C13_TypeGuardRaisesValidationError ==
    (last.op = "ObjInfo" /\ last.args.type # TypeOf(last.args.value))
    => last.exc = "ValidationError"

\* C14: for every name and value, from_name_and_value returns a record (never
\* an error) whose name and value read back as given, whose type is the type
\* of the value, whose access level follows the naming rules (__x__ dunder,
\* leading __ private, leading _ protected, else public), whose is_const is
\* true exactly when the name equals its upper-cased form and whose
\* is_callable is true exactly when the value can be invoked.
C14_ReliableConstruction ==
    last.op = "from_name_and_value"
    => /\ last.exc = "none"
       /\ LET name == last.args.name
              value == last.args.value
              access ==
                  IF Len(name) >= 4 /\ Prefix(name, 2) = <<"_", "_">>
                                    /\ Suffix(name, 2) = <<"_", "_">> THEN DUNDER
                  ELSE IF Prefix(name, 2) = <<"_", "_">> THEN PRIVATE
                  ELSE IF Prefix(name, 1) = <<"_">> THEN PROTECTED
                  ELSE PUBLIC
          IN /\ ReadSlot(last.val, "name") = Ok(name)
             /\ ReadSlot(last.val, "value") = Ok(value)
             /\ ReadSlot(last.val, "type") = Ok(TypeOf(value))
             /\ ReadSlot(last.val, "access_type") = Ok(access)
             /\ ReadSlot(last.val, "is_const") = Ok(name = StrUpper(name))
             /\ ReadSlot(last.val, "is_callable") = Ok(Callable(value))

\* C15: for an active, non-anonymous principal and obj = None, the first
\* get_user_permissions (resp. get_group_permissions) call on an instance
\* returns the principal's direct (resp. group-derived) permission set and
\* stores it on that instance.
C15_FirstCallComputesAndStores ==
    (/\ last.op \in {"get_user_permissions", "get_group_permissions"}
     /\ last.args.obj = NoObj
     /\ last.args.user_obj.is_active
     /\ ~last.args.user_obj.is_anonymous
     /\ ~last.args.user_obj.is_superuser
     /\ PermCacheName(IF last.op = "get_user_permissions" THEN "user" ELSE "group")
            \notin DOMAIN last.args.user_obj.cache)
    => LET user_obj == last.args.user_obj
           from_name == IF last.op = "get_user_permissions" THEN "user" ELSE "group"
           perms == IF from_name = "user" THEN _get_user_permissions(user_obj)
                    ELSE _get_group_permissions(user_obj)
       IN /\ last.exc = "none"
          /\ last.val = perms
          /\ PermCacheName(from_name) \in DOMAIN perm_cache[user_obj.pk]
          /\ perm_cache[user_obj.pk][PermCacheName(from_name)] = perms

\* C16: is_valid_for(name, value) returns true exactly when the policy's
\* access_types is empty or unset or holds the name's access level, and each
\* of the policy's filters is_const, is_class and is_callable is True or
\* unset; a policy with one of the three set to False accepts no attribute.
C16_PolicyMatching ==
    last.op = "is_valid_for"
    => /\ last.exc = "none"
       /\ LET options == last.args.options IN
          last.val =
             (/\ \/ options.access_types_is_none
                 \/ options.access_types = {}
                 \/ from_obj_name(last.args.name) \in options.access_types
              /\ \A b \in {options.is_const, options.is_class, options.is_callable} :
                    b \in {"True", "None"})

\* C17: for every non-empty name _is_class returns a boolean without raising,
\* true exactly when the name stripped of leading and trailing underscores
\* has an upper-case first character, contains no underscore, and has at
\* least one non-upper-case character after the first.
C17_ClassLikenessRule ==
    (last.op = "_is_class" /\ last.args.name # <<>>)
    => /\ last.exc = "none"
       /\ LET stripped == Strip(last.args.name) IN
          last.val =
             (/\ stripped # <<>>
              /\ IsUpperChar(stripped[1])
              /\ \A i \in DOMAIN stripped : stripped[i] # "_"
              /\ \E i \in 2..Len(stripped) : ~IsUpperChar(stripped[i]))

====
